---- MODULE Spec2Model ----
(***************************************************************************)
(* Model of the dVE verification core: the mock KERI identity manager      *)
(* (MockKeri), the mock ledger (MockBlockchain), the BlockchainService     *)
(* facade and the VerificationEngine.verifyFile orchestration.             *)
(*                                                                         *)
(* Random identifiers and keys (crypto.randomBytes) are modelled as fresh  *)
(* values drawn from counters.  SHA-256 is modelled as an injective        *)
(* function: the digest of (dataStr, privateKey) is the pair itself.       *)
(* Every awaited call of the source is one atomic step of the model; the   *)
(* code between two awaits runs without interleaving (single-threaded      *)
(* event loop).                                                            *)
(***************************************************************************)
EXTENDS Integers, Sequences, FiniteSets, TLC

\* ---------------------------------------------------------------- bounds
MaxSize == 5
MaxRequests == 4
MaxStores == 2

\* ------------------------------------------------------------- constants
Undefined == "undefined"

\* 'did:keri:' + randomBytes and 'key_' + randomBytes: the n-th fresh value
IdentifierName == <<"did:keri:1", "did:keri:2", "did:keri:3", "did:keri:4", "did:keri:5", "did:keri:6", "did:keri:7">>
KeyPairName == <<"key_1", "key_2", "key_3", "key_4", "key_5", "key_6", "key_7", "key_8">>

\* ------------------------------------------------------- data and hashing
\* the values handed to sign/verify: a number, strings, objects with and
\* without an undefined property
DataValues ==
  { [kind |-> "number", v |-> <<"1">>, fields |-> <<>>],
    [kind |-> "string", v |-> <<"1">>, fields |-> <<>>],
    [kind |-> "string", v |-> <<"{", "a", ":", "1", "}">>, fields |-> <<>>],
    [kind |-> "object", v |-> <<>>, fields |-> << <<"a", "1">> >>],
    [kind |-> "object", v |-> <<>>, fields |-> << <<"a", "1">>, <<"b", Undefined>> >>],
    [kind |-> "object", v |-> <<>>, fields |-> << <<"a", "2">> >>] }

RECURSIVE StringifyFields(_)
\* JSON.stringify of an object's properties: undefined properties are dropped
StringifyFields(fs) ==
  IF fs = <<>> THEN <<>>
  ELSE IF Head(fs)[2] = Undefined THEN StringifyFields(Tail(fs))
  ELSE <<Head(fs)[1], ":", Head(fs)[2]>> \o StringifyFields(Tail(fs))

\* typeof data === 'object' ? JSON.stringify(data) : String(data)
Serialize(data) ==
  IF data.kind = "object"
  THEN <<"{">> \o StringifyFields(data.fields) \o <<"}">>
  ELSE data.v

\* 'sig_' + sha256(dataStr, privateKey)
SignatureOf(dataStr, privateKey) == [str |-> dataStr, key |-> privateKey]

\* sha256(dataStr)
DataHash(dataStr) == dataStr

VARIABLES
  keyPairs,      \* MockKeri.keyPairs: keyPairId -> key pair set
  identifiers,   \* MockKeri.identifiers: identifierId -> identifier
  eventLogs,     \* MockKeri.eventLogs: identifierId -> sequence of events
  issued,        \* signatures returned by successful sign calls
  lastOp,        \* the last call made to the identity manager or, directly, to
                 \* the ledger, and its outcome
  calls,         \* per identifier: the successful rotateKeys calls and the
                 \* createEvent calls of type 'rotation' made so far
  files,         \* FileMetadata collection: fileId -> document
  mappings,      \* Mapping collection, in order of creation
  dbRecords,     \* VerificationRecord collection (database): recordId -> document
  records,       \* MockBlockchain.records: recordId -> record
  transactions,  \* MockBlockchain.transactions: txId -> transaction
  verifyCalls    \* the verifyFile calls made so far, in order of arrival:
                 \* where each one is and what it holds

vars == <<keyPairs, identifiers, eventLogs, issued, lastOp, calls,
          files, mappings, dbRecords, records, transactions, verifyCalls>>

\* --------------------------------------------------------------- helpers
CountType(log, type) == Cardinality({i \in 1..Len(log) : log[i].type = type})

IsPrefix(s, t) == Len(s) <= Len(t) /\ SubSeq(t, 1, Len(s)) = s

\* identifierData.metadata / options drawn for the calls
MetadataValues == { [personalData |-> "pii", erasureCompleted |-> FALSE] }

NoCalls == [rotateKeys |-> 0, createEventRotation |-> 0]

NoOp == [op |-> "none", id |-> "", result |-> "none"]

FileIds == {"file_1"}

\* a file id no document has
UnknownFileId == "file_x"

NewFile ==
  [status |-> "uploaded", mappingId |-> 0, validationResults |-> <<>>,
   verificationRecordId |-> "", blockchainTxId |-> ""]

NewCall ==
  [pc |-> "start", fileId |-> "", options |-> <<>>, validation |-> <<>>,
   mappingId |-> 0, recordId |-> "", identifierId |-> "", signature |-> <<>>, txId |-> "",
   error |-> "", signCalls |-> 0, storeCalls |-> 0]

Init ==
  /\ files = [f \in FileIds |-> NewFile]
  /\ mappings = <<>>
  /\ dbRecords = <<>>
  /\ records = <<>>
  /\ transactions = <<>>
  /\ verifyCalls = <<>>
  /\ keyPairs = <<>>
  /\ identifiers = <<>>
  /\ eventLogs = <<>>
  /\ issued = {}
  /\ lastOp = NoOp
  /\ calls = <<>>

\* ------------------------------------------------------------- MockKeri
\* the identifier ids a caller may pass: the created ones and one that was
\* never created
CallerIds == DOMAIN identifiers \cup {"system"}

CallerKeyPairIds == DOMAIN keyPairs \cup {"key_unknown"}

NumIdentifiers == Cardinality(DOMAIN identifiers)

NumKeyPairs == Cardinality(DOMAIN keyPairs)

RECURSIVE SumLen(_, _)
SumLen(logs, ids) ==
  IF ids = {} THEN 0
  ELSE LET id == CHOOSE x \in ids : TRUE
       IN Len(logs[id]) + SumLen(logs, ids \ {id})

\* events pushed since the inception events
TotalEvents == SumLen(eventLogs, DOMAIN eventLogs) - Cardinality(DOMAIN eventLogs)

\* what the identity manager holds: key pair sets, identifiers and pushed events
Size == Cardinality(DOMAIN keyPairs) + Cardinality(DOMAIN identifiers) + TotalEvents

\* crypto.randomBytes(32): the n-th key generated for a key pair set; a key
\* stands for both its public and its private half
FreshKey(keyPairId, n) == [of |-> keyPairId, n |-> n]

\* mutant of NewKeyPairInfo: no separate next key is generated
NewKeyPairInfoNoNext(keyPairId) ==
  [id |-> keyPairId, current |-> FreshKey(keyPairId, 1), next |-> FreshKey(keyPairId, 1),
   previous |-> <<>>, generated |-> 1, status |-> "Active"]

\* generateKeyPair: a current and a next key, stored under a fresh id
NewKeyPairInfo(keyPairId) ==
  [id |-> keyPairId, current |-> FreshKey(keyPairId, 1), next |-> FreshKey(keyPairId, 2),
   previous |-> <<>>, generated |-> 2, status |-> "Active"]

GenerateKeyPair ==
  /\ Size < MaxSize
  /\ LET keyPairId == KeyPairName[NumKeyPairs + 1]
     IN keyPairs' = (keyPairId :> NewKeyPairInfo(keyPairId)) @@ keyPairs
  /\ lastOp' = [op |-> "generateKeyPair", id |-> "", result |-> "ok"]
  /\ UNCHANGED <<identifiers, eventLogs, issued, calls>>

\* the event log createIdentifier installs for a new identifier
InceptionLog(identifierId, keyPairInfo) ==
  << [type |-> "inception", identifierId |-> identifierId,
      publicKey |-> keyPairInfo.current, nextPublicKey |-> keyPairInfo.next] >>

NewIdentifier(identifierId, keyPairId, metadata) ==
  [id |-> identifierId, keyPairId |-> keyPairId, status |-> "Active",
   metadata |-> metadata]

\* createIdentifier with identifierData.keyPairId given
CreateIdentifierWithKeyPair(keyPairId, metadata) ==
  /\ Size < MaxSize
  /\ IF keyPairId \notin DOMAIN keyPairs
     THEN /\ lastOp' = [op |-> "createIdentifier", id |-> "", result |-> "KeyPairNotFound"]
          /\ UNCHANGED <<keyPairs, identifiers, eventLogs, issued, calls>>
     ELSE LET identifierId == IdentifierName[NumIdentifiers + 1]
          IN /\ identifiers' = (identifierId :> NewIdentifier(identifierId, keyPairId, metadata))
                                 @@ identifiers
             /\ eventLogs' = (identifierId :> InceptionLog(identifierId, keyPairs[keyPairId]))
                               @@ eventLogs
             /\ calls' = (identifierId :> NoCalls) @@ calls
             /\ lastOp' = [op |-> "createIdentifier", id |-> identifierId, result |-> "ok"]
             /\ UNCHANGED <<keyPairs, issued>>

\* createIdentifier without a key pair id: generateKeyPair first
CreateIdentifierFresh(metadata) ==
  /\ Size + 1 < MaxSize
  /\ LET keyPairId == KeyPairName[NumKeyPairs + 1]
         keyPairInfo == NewKeyPairInfo(keyPairId)
         identifierId == IdentifierName[NumIdentifiers + 1]
     IN /\ keyPairs' = (keyPairId :> keyPairInfo) @@ keyPairs
              /\ identifiers' = (identifierId :> NewIdentifier(identifierId, keyPairId, metadata))
                            @@ identifiers
        /\ eventLogs' = (identifierId :> InceptionLog(identifierId, keyPairInfo)) @@ eventLogs
        /\ calls' = (identifierId :> NoCalls) @@ calls
        /\ lastOp' = [op |-> "createIdentifier", id |-> identifierId, result |-> "ok"]
        /\ UNCHANGED issued

CreateIdentifier ==
  \E metadata \in MetadataValues :
    \/ CreateIdentifierFresh(metadata)
    \/ \E keyPairId \in CallerKeyPairIds : CreateIdentifierWithKeyPair(keyPairId, metadata)

\* mutant of PushEvent: the event replaces the head of the log
PushEventFront(eventLog, event) == <<event>> \o Tail(eventLog)

\* eventLog.push(event); this.eventLogs.set(identifierId, eventLog)
PushEvent(eventLog, event) == Append(eventLog, event)

\* the lookups every identifier operation starts with
LookupError(identifierId) ==
  IF identifierId \notin DOMAIN identifiers THEN "IdentifierNotFound"
  ELSE IF identifiers[identifierId].keyPairId \notin DOMAIN keyPairs THEN "KeyPairNotFound"
  ELSE "ok"

\* mutant of RotatedKeyPair: the new key becomes current, the pre-rotated
\* next key is skipped
RotatedKeyPairSkipNext(keyPairInfo, newKey) ==
  [keyPairInfo EXCEPT !.previous = <<keyPairInfo.current>>,
                      !.current = newKey,
                      !.next = newKey,
                      !.generated = @ + 1]

\* rotateKeys: current becomes previous, next becomes current, a new next
RotatedKeyPair(keyPairInfo, newKey) ==
  [keyPairInfo EXCEPT !.previous = <<keyPairInfo.current>>,
                      !.current = keyPairInfo.next,
                      !.next = newKey,
                      !.generated = @ + 1]

RotationEvent(identifierId, keyPairInfo, newKey) ==
  [type |-> "rotation", identifierId |-> identifierId,
   previousPublicKey |-> keyPairInfo.current,
   currentPublicKey |-> keyPairInfo.next,
   nextPublicKey |-> newKey]

RotateKeys(identifierId) ==
  LET err == LookupError(identifierId)
  IN IF err # "ok"
     THEN /\ lastOp' = [op |-> "rotateKeys", id |-> identifierId, result |-> err]
          /\ UNCHANGED <<keyPairs, identifiers, eventLogs, issued, calls>>
     ELSE LET keyPairId == identifiers[identifierId].keyPairId
              keyPairInfo == keyPairs[keyPairId]
              newKey == FreshKey(keyPairId, keyPairInfo.generated + 1)
          IN /\ Size < MaxSize
             /\ keyPairs' = [keyPairs EXCEPT ![keyPairId] = RotatedKeyPair(keyPairInfo, newKey)]
             /\ eventLogs' = [eventLogs EXCEPT ![identifierId] =
                                PushEvent(@, RotationEvent(identifierId, keyPairInfo, newKey))]
             /\ calls' = [calls EXCEPT ![identifierId].rotateKeys = @ + 1]
             /\ lastOp' = [op |-> "rotateKeys", id |-> identifierId, result |-> "ok"]
             /\ UNCHANGED <<identifiers, issued>>


\* sign, lines 278-287: the signature over the serialized data and the
\* current private key
SignSignature(data, keyPairInfo) == SignatureOf(Serialize(data), keyPairInfo.current)

SignatureEvent(identifierId, keyPairInfo, data) ==
  [type |-> "signature", identifierId |-> identifierId, keyId |-> keyPairInfo.id,
   dataHash |-> DataHash(Serialize(data))]

\* the state change of a sign call that passed its lookups; ioError is
\* _saveState failing after the event was pushed, so nothing is returned
SignEffect(identifierId, data, ioError) ==
  LET keyPairInfo == keyPairs[identifiers[identifierId].keyPairId]
  IN /\ eventLogs' = [eventLogs EXCEPT ![identifierId] =
                        PushEvent(@, SignatureEvent(identifierId, keyPairInfo, data))]
     /\ issued' = IF ioError THEN issued
                  ELSE issued \cup { [identifierId |-> identifierId, keyId |-> keyPairInfo.id,
                                      data |-> data,
                                      generation |-> keyPairInfo.generated,
                                      signature |-> SignSignature(data, keyPairInfo)] }

\* the data the standalone sign calls are given
SignData ==
  { d \in DataValues : d.kind = "number" \/ (d.kind = "object" /\ Len(d.fields) = 2) }

Sign(identifierId, data, ioError) ==
  LET err == LookupError(identifierId)
  IN IF err # "ok"
     THEN /\ lastOp' = [op |-> "sign", id |-> identifierId, result |-> err]
          /\ UNCHANGED <<keyPairs, identifiers, eventLogs, issued, calls>>
     ELSE /\ Size < MaxSize
          /\ SignEffect(identifierId, data, ioError)
          /\ lastOp' = [op |-> "sign", id |-> identifierId,
                        result |-> IF ioError THEN "IOError" ELSE "ok"]
          /\ UNCHANGED <<keyPairs, identifiers, calls>>

\* mutant of ExpectedSignature: the data is left out of the digest
ExpectedSignatureKeyOnly(data, keyPairInfo) == SignatureOf(<<>>, keyPairInfo.current)

\* verify, lines 332-338: recompute from the current key and compare
ExpectedSignature(data, keyPairInfo) == SignatureOf(Serialize(data), keyPairInfo.current)

\* mutant of KeriVerify: a signature made with the previous key still verifies
KeriVerifyPreviousKeyToo(identifierId, data, signature) ==
  LET keyPairInfo == keyPairs[identifiers[identifierId].keyPairId]
  IN \/ signature = SignatureOf(Serialize(data), keyPairInfo.current)
     \/ \E k \in DOMAIN keyPairInfo.previous :
          signature = SignatureOf(Serialize(data), keyPairInfo.previous[k])

KeriVerify(identifierId, data, signature) ==
  signature = ExpectedSignature(data, keyPairs[identifiers[identifierId].keyPairId])

\* createEvent: an event of the caller's type is pushed
CallerEventTypes == {"rotation", "note"}

CreateEvent(identifierId, eventType) ==
  IF identifierId \notin DOMAIN identifiers
  THEN /\ lastOp' = [op |-> "createEvent", id |-> identifierId,
                     result |-> "IdentifierNotFound"]
       /\ UNCHANGED <<keyPairs, identifiers, eventLogs, issued, calls>>
  ELSE /\ Size < MaxSize
       /\ eventLogs' = [eventLogs EXCEPT ![identifierId] =
                          PushEvent(@, [type |-> eventType, identifierId |-> identifierId])]
       /\ calls' = IF eventType = "rotation"
                   THEN [calls EXCEPT ![identifierId].createEventRotation = @ + 1]
                   ELSE calls
       /\ lastOp' = [op |-> "createEvent", id |-> identifierId, result |-> "ok"]
       /\ UNCHANGED <<keyPairs, identifiers, issued>>

\* implementErasure: lines 433-442
ErasedIdentifier(identifier) ==
  [identifier EXCEPT !.status = "Erased",
                     !.metadata = [personalData |-> "none", erasureCompleted |-> TRUE]]

ImplementErasure(identifierId) ==
  IF identifierId \notin DOMAIN identifiers
  THEN /\ lastOp' = [op |-> "implementErasure", id |-> identifierId,
                     result |-> "IdentifierNotFound"]
       /\ UNCHANGED <<keyPairs, identifiers, eventLogs, issued, calls>>
  ELSE /\ Size < MaxSize
       /\ eventLogs' = [eventLogs EXCEPT ![identifierId] =
                          PushEvent(@, [type |-> "erasure", identifierId |-> identifierId,
                                        reason |-> "GDPR compliance"])]
       /\ identifiers' = [identifiers EXCEPT ![identifierId] = ErasedIdentifier(@)]
       /\ lastOp' = [op |-> "implementErasure", id |-> identifierId, result |-> "ok"]
       /\ UNCHANGED <<keyPairs, issued, calls>>

\* establishAmbientVerifiability: an event, and the identifier is updated
EstablishAmbientVerifiability(identifierId) ==
  IF identifierId \notin DOMAIN identifiers
  THEN /\ lastOp' = [op |-> "establishAmbientVerifiability", id |-> identifierId,
                     result |-> "IdentifierNotFound"]
       /\ UNCHANGED <<keyPairs, identifiers, eventLogs, issued, calls>>
  ELSE /\ Size < MaxSize
       /\ eventLogs' = [eventLogs EXCEPT ![identifierId] =
                          PushEvent(@, [type |-> "ambient-verifiability",
                                        identifierId |-> identifierId])]
       /\ identifiers' = [identifiers EXCEPT ![identifierId] =
                            [id |-> @.id, keyPairId |-> @.keyPairId, status |-> @.status,
                             metadata |-> @.metadata, ambientVerifiability |-> TRUE]]
       /\ lastOp' = [op |-> "establishAmbientVerifiability", id |-> identifierId,
                     result |-> "ok"]
       /\ UNCHANGED <<keyPairs, issued, calls>>

NextKeri ==
  /\ UNCHANGED <<files, mappings, dbRecords, records, transactions, verifyCalls>>
  /\ \/ GenerateKeyPair
     \/ CreateIdentifier
     \/ \E identifierId \in CallerIds : RotateKeys(identifierId)
     \/ \E identifierId \in CallerIds, data \in SignData, ioError \in BOOLEAN :
          Sign(identifierId, data, ioError)
     \/ \E identifierId \in CallerIds, eventType \in CallerEventTypes :
          CreateEvent(identifierId, eventType)
     \/ \E identifierId \in CallerIds : ImplementErasure(identifierId)
     \/ \E identifierId \in CallerIds : EstablishAmbientVerifiability(identifierId)

SpecKeri == Init /\ [][NextKeri]_vars


\* ---------------------------------------------- validation rule store
\* the ValidationRule collection the engine reads and never changes
ValidationRuleStore ==
  << [ruleId |-> "r1", schemaId |-> "EmissionData", ruleType |-> "required",
      severity |-> "error", targetField |-> "emissionId", active |-> TRUE],
     [ruleId |-> "r2", schemaId |-> "EmissionData", ruleType |-> "range",
      severity |-> "error", targetField |-> "emissionValue", active |-> TRUE],
     [ruleId |-> "r3", schemaId |-> "EmissionData", ruleType |-> "pattern",
      severity |-> "error", targetField |-> "emissionId", active |-> FALSE],
     [ruleId |-> "r4", schemaId |-> "ActivityData", ruleType |-> "pattern",
      severity |-> "warning", targetField |-> "activityCode", active |-> TRUE] >>

\* ValidationRule.find({ schemaId, active: true })
ActiveRules(schemaId) ==
  SelectSeq(ValidationRuleStore, LAMBDA r : r.schemaId = schemaId /\ r.active)

\* the rule types whose outcome _applyValidationRule draws with Math.random()
RandomRuleTypes == {"range", "uniqueness", "pattern", "reference", "custom"}

\* _applyValidationRule; randomPass is the outcome of the Math.random() test
ApplyValidationRule(rule, columnMappings, randomPass) ==
  IF rule.targetField \notin columnMappings /\ rule.ruleType = "required"
  THEN [ruleId |-> rule.ruleId, result |-> "Fail"]
  ELSE IF rule.ruleType \in {"dataType", "required"}
  THEN [ruleId |-> rule.ruleId, result |-> "Pass"]
  ELSE IF rule.ruleType \in RandomRuleTypes
  THEN [ruleId |-> rule.ruleId, result |-> IF randomPass THEN "Pass" ELSE "Fail"]
  ELSE [ruleId |-> rule.ruleId, result |-> "NotApplicable"]

RECURSIVE ValidateRules(_, _, _, _)
\* the loop of _validateFile from rule i on; mapping.columnMappings being
\* undefined makes every rule application throw, which the loop catches
ValidateRules(rules, mapping, randoms, i) ==
  IF i > Len(rules) THEN [errors |-> <<>>, warnings |-> <<>>, ruleOutcomes |-> <<>>]
  ELSE LET rule == rules[i]
           rest == ValidateRules(rules, mapping, randoms, i + 1)
       IN IF ~mapping.hasColumnMappings
          THEN [errors |-> <<rule.ruleId>> \o rest.errors,
                warnings |-> rest.warnings,
                ruleOutcomes |-> <<[ruleId |-> rule.ruleId, result |-> "Fail"]>>
                                   \o rest.ruleOutcomes]
          ELSE LET outcome == ApplyValidationRule(rule, mapping.columnMappings, randoms[i])
                   failed == outcome.result = "Fail"
               IN [errors |-> (IF failed /\ rule.severity = "error"
                               THEN <<rule.ruleId>> ELSE <<>>) \o rest.errors,
                   warnings |-> (IF failed /\ rule.severity = "warning"
                                 THEN <<rule.ruleId>> ELSE <<>>) \o rest.warnings,
                   ruleOutcomes |-> <<outcome>> \o rest.ruleOutcomes]

\* _validateFile: isValid = errors.length === 0
ValidateFile(rules, mapping, randoms) ==
  LET r == ValidateRules(rules, mapping, randoms, 1)
  IN [isValid |-> r.errors = <<>>, errors |-> r.errors, warnings |-> r.warnings,
      ruleOutcomes |-> r.ruleOutcomes]

\* ------------------------------------------------- DataMappingService
\* the mapping data a caller may supply: every rule field mapped, or no
\* column mappings at all
MappingInputs ==
  { [schemaId |-> "EmissionData", hasColumnMappings |-> TRUE,
     columnMappings |-> {"emissionId", "emissionValue"}],
    [schemaId |-> "ActivityData", hasColumnMappings |-> FALSE, columnMappings |-> {}] }

\* the requests made to the engine's side so far
Requests == Len(mappings) + Len(verifyCalls) + Cardinality(DOMAIN identifiers)

\* createMapping: the mapping is saved and the file is set to 'mapped'
CreateMapping(fileId, input) ==
  /\ Requests < MaxRequests
  /\ mappings' = Append(mappings, [fileId |-> fileId, schemaId |-> input.schemaId,
                                   hasColumnMappings |-> input.hasColumnMappings,
                                   columnMappings |-> input.columnMappings])
  /\ files' = IF fileId \in DOMAIN files
              THEN [files EXCEPT ![fileId].mappingId = Len(mappings) + 1,
                                 ![fileId].status = "mapped"]
              ELSE files
  /\ UNCHANGED <<keyPairs, identifiers, eventLogs, issued, lastOp, calls,
                 dbRecords, records, transactions, verifyCalls>>

\* --------------------------------------------------- VerificationEngine
RecordName == <<"rec_1", "rec_2", "rec_3", "rec_4">>
TxName == <<"tx_1", "tx_2", "tx_3", "tx_4">>

\* the options of a verifyFile call; createdBy "" is an absent createdBy
OptionValues ==
  { [createBlockchainRecord |-> TRUE, confidential |-> FALSE, createdBy |-> ""],
    [createBlockchainRecord |-> FALSE, confidential |-> FALSE, createdBy |-> ""] }
  \cup { [createBlockchainRecord |-> TRUE, confidential |-> k, createdBy |-> id] :
           k \in BOOLEAN, id \in DOMAIN identifiers }

\* mutant of StartError: the status of the file is not looked at
StartErrorNoStatusCheck(fileId) ==
  IF fileId \notin DOMAIN files THEN "FileNotFound"
  ELSE IF files[fileId].mappingId = 0 THEN "NoMapping"
  ELSE "ok"

\* verifyFile lines 117-132: why the call is refused before it validates
StartError(fileId) ==
  IF fileId \notin DOMAIN files THEN "FileNotFound"
  ELSE IF files[fileId].status # "mapped" THEN "InvalidState"
  ELSE IF files[fileId].mappingId = 0 THEN "NoMapping"
  ELSE "ok"

\* verifyFile is called: the file is read and its status checked
StartVerify(fileId, options) ==
  /\ Requests < MaxRequests
  /\ LET err == StartError(fileId)
     IN verifyCalls' = Append(verifyCalls,
          [NewCall EXCEPT !.pc = IF err = "ok" THEN "validate" ELSE "failed",
                    !.fileId = fileId,
                    !.options = IF err = "ok" THEN <<options>> ELSE <<>>,
                    !.mappingId = IF err = "ok" THEN files[fileId].mappingId ELSE 0,
                    !.error = IF err = "ok" THEN "" ELSE err])
  /\ UNCHANGED <<keyPairs, identifiers, eventLogs, issued, lastOp, calls,
                 files, mappings, dbRecords, records, transactions>>

\* mutant of ValidatedStatus: a valid file is marked verified at once
ValidatedStatusVerified(isValid) == IF isValid THEN "verified" ELSE "error"

\* line 145: the status the validation outcome gives the file
ValidatedStatus(isValid) == IF isValid THEN "validated" ELSE "error"

\* mutant of CreatesRecord: the validation outcome is not looked at
CreatesRecordAlways(isValid, options) == options.createBlockchainRecord # FALSE

\* line 149: whether a verification record is created
CreatesRecord(isValid, options) == isValid /\ options.createBlockchainRecord # FALSE

\* lines 134-146: the rules are loaded and applied (the mapping is the one
\* the call read at its start), the outcome is saved on the file
ValidateStep(c) ==
  /\ verifyCalls[c].pc = "validate"
  /\ LET call == verifyCalls[c]
         mapping == mappings[call.mappingId]
         rules == ActiveRules(mapping.schemaId)
     IN \E randoms \in [1..Len(rules) -> BOOLEAN] :
          LET results == ValidateFile(rules, mapping, randoms)
          IN /\ files' = [files EXCEPT
                   ![call.fileId].validationResults =
                      <<[isValid |-> results.isValid, errors |-> results.errors,
                         warnings |-> results.warnings]>>,
                   ![call.fileId].status = ValidatedStatus(results.isValid)]
             /\ verifyCalls' = [verifyCalls EXCEPT ![c] =
                  [@ EXCEPT !.validation = <<results>>,
                            !.pc = IF CreatesRecord(results.isValid, call.options[1])
                                   THEN "saveRecord" ELSE "done"]]
  /\ UNCHANGED <<keyPairs, identifiers, eventLogs, issued, lastOp, calls,
                 mappings, dbRecords, records, transactions>>

\* _createVerificationRecord line 403: createdBy: options.createdBy || 'system'
RecordCreatedBy(options) == IF options.createdBy = "" THEN "system" ELSE options.createdBy

\* lines 382-404: the record data built for the file
VerificationRecordData(recordId, fileId, validation, options) ==
  [recordId |-> recordId, fileId |-> fileId,
   validationStatus |-> IF validation.isValid THEN "Valid" ELSE "Invalid",
   createdBy |-> RecordCreatedBy(options)]

\* lines 370-408: a fresh record id, the record is saved in the database
\* (blockchainStatus defaults to 'Pending')
SaveRecord(c) ==
  /\ verifyCalls[c].pc = "saveRecord"
  /\ LET call == verifyCalls[c]
         recordId == RecordName[Cardinality(DOMAIN dbRecords) + 1]
         data == VerificationRecordData(recordId, call.fileId, call.validation[1],
                                        call.options[1])
     IN /\ dbRecords' = (recordId :> [fileId |-> data.fileId, createdBy |-> data.createdBy,
                                      validationStatus |-> data.validationStatus,
                                      blockchainTxId |-> "", blockchainStatus |-> "Pending"])
                          @@ dbRecords
        /\ verifyCalls' = [verifyCalls EXCEPT ![c] =
             [@ EXCEPT !.recordId = recordId, !.identifierId = data.createdBy,
                       !.pc = "sign"]]
  /\ UNCHANGED <<keyPairs, identifiers, eventLogs, issued, lastOp, calls,
                 files, mappings, records, transactions>>

\* ---------------------------------------------------- BlockchainService
\* the ledger record as the data handed to keri.sign: the record before its
\* signature is set
RecordAsData(recordId, fileId, createdBy) ==
  [kind |-> "object", v |-> <<>>,
   fields |-> << <<"recordId", recordId>>, <<"fileId", fileId>>,
                 <<"createdBy", createdBy>>, <<"signature", Undefined>> >>]

\* createVerificationRecord / createConfidentialRecord: an identifier is
\* created when the record data has no createdBy, then keri.sign(identifierId,
\* record); a throw ends the verifyFile call
SignRecord(c, ioError) ==
  /\ verifyCalls[c].pc = "sign"
  /\ LET call == verifyCalls[c]
         data == RecordAsData(call.recordId, call.fileId, call.identifierId)
     IN IF call.identifierId = ""
        THEN /\ \E metadata \in MetadataValues : CreateIdentifierFresh(metadata)
             /\ verifyCalls' = [verifyCalls EXCEPT
                  ![c].identifierId = IdentifierName[NumIdentifiers + 1]]
        ELSE /\ Sign(call.identifierId, data, ioError)
             /\ verifyCalls' = [verifyCalls EXCEPT ![c] =
                  IF LookupError(call.identifierId) # "ok"
                  THEN [@ EXCEPT !.pc = "failed", !.error = LookupError(call.identifierId),
                                 !.signCalls = @ + 1]
                  ELSE IF ioError
                  THEN [@ EXCEPT !.pc = "failed", !.error = "IOError", !.signCalls = @ + 1]
                  ELSE [@ EXCEPT !.pc = IF call.options[1].confidential
                                        THEN "confidential" ELSE "store",
                                 !.signCalls = @ + 1,
                                 !.signature = <<SignSignature(data,
                                    keyPairs[identifiers[call.identifierId].keyPairId])>>]]
  /\ UNCHANGED <<files, mappings, dbRecords, records, transactions>>

\* -------------------------------------------------------- MockBlockchain
\* mutant of RecordIsValid: only the two ids are required
RecordIsValidIdsOnly(record) ==
  /\ record.recordId # ""
  /\ record.fileId # ""

\* VerificationRecord.isValid: the required fields are present
RecordIsValid(record) ==
  /\ record.recordId # ""
  /\ record.fileId # ""
  /\ record.timestamp # ""
  /\ record.validationStatus # ""
  /\ record.fileChecksum # ""
  /\ record.createdBy # ""

\* this.records.set(verificationRecord.recordId, verificationRecord)
StoredRecords(ledgerRecords, record) == (record.recordId :> record) @@ ledgerRecords

\* the transaction storeVerificationRecord writes
StoreTransaction(txId, recordId) ==
  [txId |-> txId, type |-> "StoreVerificationRecord", recordId |-> recordId,
   status |-> "Confirmed", confirmations |-> 1]

\* storeVerificationRecord: the record and its transaction are written;
\* ioError is _saveState failing after both were set
StoreRecord(c, ioError) ==
  /\ verifyCalls[c].pc = "store"
  /\ LET call == verifyCalls[c]
         record == [recordId |-> call.recordId, fileId |-> call.fileId,
                    timestamp |-> "now",
                    validationStatus |-> dbRecords[call.recordId].validationStatus,
                    fileChecksum |-> "sha256_file",
                    createdBy |-> call.identifierId, signature |-> call.signature[1]]
         txId == TxName[Cardinality(DOMAIN transactions) + 1]
     IN IF ~RecordIsValid(record)
        THEN /\ verifyCalls' = [verifyCalls EXCEPT ![c] =
                  [@ EXCEPT !.pc = "failed", !.error = "InvalidRecord",
                            !.storeCalls = @ + 1]]
             /\ UNCHANGED <<records, transactions>>
        ELSE /\ records' = StoredRecords(records, record)
             /\ transactions' = (txId :> StoreTransaction(txId, call.recordId)) @@ transactions
             /\ verifyCalls' = [verifyCalls EXCEPT ![c] =
                  IF ioError
                  THEN [@ EXCEPT !.pc = "failed", !.error = "IOError", !.storeCalls = @ + 1]
                  ELSE [@ EXCEPT !.pc = "updateRecord", !.txId = txId,
                                 !.storeCalls = @ + 1]]
  /\ UNCHANGED <<keyPairs, identifiers, eventLogs, issued, lastOp, calls,
                 files, mappings, dbRecords>>

\* createConfidentialTransaction: only a transaction is written
ConfidentialTransaction(c, ioError) ==
  /\ verifyCalls[c].pc = "confidential"
  /\ LET call == verifyCalls[c]
         txId == TxName[Cardinality(DOMAIN transactions) + 1]
     IN /\ transactions' = (txId :> [txId |-> txId, type |-> "ConfidentialTransaction",
                                     recordId |-> call.recordId, status |-> "Confirmed",
                                     confirmations |-> 1]) @@ transactions
        /\ verifyCalls' = [verifyCalls EXCEPT ![c] =
             IF ioError
             THEN [@ EXCEPT !.pc = "failed", !.error = "IOError"]
             ELSE [@ EXCEPT !.pc = "updateRecord", !.txId = txId]]
  /\ UNCHANGED <<keyPairs, identifiers, eventLogs, issued, lastOp, calls,
                 files, mappings, dbRecords, records>>

\* ------------------------------------- VerificationEngine, continued
\* _createVerificationRecord lines 422-424: the database record is confirmed
UpdateRecord(c) ==
  /\ verifyCalls[c].pc = "updateRecord"
  /\ LET call == verifyCalls[c]
     IN dbRecords' = [dbRecords EXCEPT ![call.recordId] =
                        [@ EXCEPT !.blockchainTxId = call.txId,
                                  !.blockchainStatus = "Confirmed"]]
  /\ verifyCalls' = [verifyCalls EXCEPT ![c].pc = "updateFile"]
  /\ UNCHANGED <<keyPairs, identifiers, eventLogs, issued, lastOp, calls,
                 files, mappings, records, transactions>>

\* verifyFile lines 153-156: the file is marked verified
UpdateFile(c) ==
  /\ verifyCalls[c].pc = "updateFile"
  /\ LET call == verifyCalls[c]
     IN files' = [files EXCEPT ![call.fileId] =
                    [@ EXCEPT !.verificationRecordId = call.recordId,
                              !.blockchainTxId = call.txId,
                              !.status = "verified"]]
  /\ verifyCalls' = [verifyCalls EXCEPT ![c].pc = "done"]
  /\ UNCHANGED <<keyPairs, identifiers, eventLogs, issued, lastOp, calls,
                 mappings, dbRecords, records, transactions>>

CallSlots == DOMAIN verifyCalls

\* an identifier is created for a user who will be named as createdBy
RegisterCreator ==
  /\ Requests < MaxRequests
  /\ \E metadata \in MetadataValues : CreateIdentifierFresh(metadata)
  /\ UNCHANGED <<files, mappings, dbRecords, records, transactions, verifyCalls>>

Next ==
  \/ \E fileId \in FileIds, input \in MappingInputs : CreateMapping(fileId, input)
  \/ RegisterCreator
  \/ \E fileId \in FileIds \cup {UnknownFileId}, options \in OptionValues :
       StartVerify(fileId, options)
  \/ \E c \in CallSlots : ValidateStep(c)
  \/ \E c \in CallSlots : SaveRecord(c)
  \/ \E c \in CallSlots, ioError \in BOOLEAN : SignRecord(c, ioError)
  \/ \E c \in CallSlots, ioError \in BOOLEAN : StoreRecord(c, ioError)
  \/ \E c \in CallSlots, ioError \in BOOLEAN : ConfidentialTransaction(c, ioError)
  \/ \E c \in CallSlots : UpdateRecord(c)
  \/ \E c \in CallSlots : UpdateFile(c)

Spec == Init /\ [][Next]_vars

\* --------------------------------- MockBlockchain, called directly
\* Math.min(..., 12) in getTransactionStatus
MaxConfirmations == 12

\* a signature field that is not set, and one set by some earlier signer
NoSignature == SignatureOf(<<>>, FreshKey("", 0))

ForeignSignature == SignatureOf(<<"x">>, FreshKey("", 0))

\* the record ids callers pass: one that gets stored, one that never is
LedgerRecordIds == {"rec_a", "rec_unknown"}

RequiredFields ==
  {"recordId", "fileId", "timestamp", "validationStatus", "fileChecksum", "createdBy"}

\* a record with every required field
CompleteRecord(recordId, signature) ==
  [recordId |-> recordId, fileId |-> "file_1", timestamp |-> "now",
   validationStatus |-> "Valid", fileChecksum |-> "sha256_file",
   createdBy |-> "did:keri:1", signature |-> signature]

\* the records handed to storeVerificationRecord: complete ones, signed or
\* not, and records that lack one required field
StoreInputs ==
  { CompleteRecord("rec_a", sig) : sig \in {NoSignature, ForeignSignature} }
  \cup { [CompleteRecord("rec_a", ForeignSignature) EXCEPT ![f] = ""] : f \in RequiredFields }

\* storeVerificationRecord called with a record; ioError is _saveState
\* failing after the record and the transaction were set
StoreVerificationRecord(record, ioError) ==
  /\ Cardinality(DOMAIN transactions) < MaxStores
  /\ LET txId == TxName[Cardinality(DOMAIN transactions) + 1]
     IN IF ~RecordIsValid(record)
        THEN /\ lastOp' = [op |-> "storeVerificationRecord", id |-> record.recordId,
                           result |-> "InvalidRecord", arg |-> record]
             /\ UNCHANGED <<records, transactions>>
        ELSE /\ records' = StoredRecords(records, record)
             /\ transactions' = (txId :> StoreTransaction(txId, record.recordId))
                                  @@ transactions
             /\ lastOp' = [op |-> "storeVerificationRecord", id |-> record.recordId,
                           result |-> IF ioError THEN "IOError" ELSE "ok",
                           arg |-> record]
  /\ UNCHANGED <<keyPairs, identifiers, eventLogs, issued, calls,
                 files, mappings, dbRecords, verifyCalls>>

\* mutant of ReadRecord: the record is handed out without its signature
ReadRecordUnsigned(ledgerRecords, recordId) ==
  [ledgerRecords[recordId] EXCEPT !.signature = NoSignature]

\* this.records.get(recordId)
ReadRecord(ledgerRecords, recordId) == ledgerRecords[recordId]

\* getVerificationRecord: the stored record, or not found
GetVerificationRecord(recordId) ==
  /\ lastOp' = [op |-> "getVerificationRecord", id |-> recordId,
                result |-> IF recordId \in DOMAIN records THEN "ok" ELSE "NotFound",
                arg |-> IF recordId \in DOMAIN records THEN ReadRecord(records, recordId)
                        ELSE CompleteRecord("", NoSignature)]
  /\ UNCHANGED <<keyPairs, identifiers, eventLogs, issued, calls,
                 files, mappings, dbRecords, records, transactions, verifyCalls>>

\* verifyRecord of the ledger: isAuthentic = !!record.signature
IsAuthentic(record) == record.signature # NoSignature

LedgerVerifyRecord(recordId) ==
  /\ lastOp' = [op |-> "verifyRecord", id |-> recordId,
                result |-> IF recordId \notin DOMAIN records THEN "NotFound"
                           ELSE IF IsAuthentic(ReadRecord(records, recordId)) THEN "authentic"
                           ELSE "notAuthentic",
                arg |-> CompleteRecord("", NoSignature)]
  /\ UNCHANGED <<keyPairs, identifiers, eventLogs, issued, calls,
                 files, mappings, dbRecords, records, transactions, verifyCalls>>

\* mutant of Confirmed: the confirmations are not capped
ConfirmedUncapped(transaction, random) ==
  [transaction EXCEPT !.confirmations = @ + random]

\* the confirmations after one more getTransactionStatus; random is
\* Math.floor(Math.random() * 3)
Confirmed(transaction, random) ==
  [transaction EXCEPT !.confirmations =
     IF @ + random < MaxConfirmations THEN @ + random ELSE MaxConfirmations]

GetTransactionStatus(txId, random) ==
  /\ IF txId \notin DOMAIN transactions
     THEN /\ lastOp' = [op |-> "getTransactionStatus", id |-> txId, result |-> "NotFound",
                        arg |-> CompleteRecord("", NoSignature)]
          /\ UNCHANGED transactions
     ELSE /\ transactions' = [transactions EXCEPT ![txId] = Confirmed(@, random)]
          /\ lastOp' = [op |-> "getTransactionStatus", id |-> txId, result |-> "ok",
                        arg |-> CompleteRecord("", NoSignature)]
  /\ UNCHANGED <<keyPairs, identifiers, eventLogs, issued, calls,
                 files, mappings, dbRecords, records, verifyCalls>>

\* createConfidentialTransaction called with transaction data
CreateConfidentialTransaction(recordId) ==
  /\ Cardinality(DOMAIN transactions) < MaxStores
  /\ LET txId == TxName[Cardinality(DOMAIN transactions) + 1]
     IN transactions' = (txId :> [txId |-> txId, type |-> "ConfidentialTransaction",
                                  recordId |-> recordId, status |-> "Confirmed",
                                  confirmations |-> 1]) @@ transactions
  /\ lastOp' = [op |-> "createConfidentialTransaction", id |-> recordId, result |-> "ok",
                arg |-> CompleteRecord("", NoSignature)]
  /\ UNCHANGED <<keyPairs, identifiers, eventLogs, issued, calls,
                 files, mappings, dbRecords, records, verifyCalls>>

NextLedger ==
  \/ \E record \in StoreInputs, ioError \in BOOLEAN : StoreVerificationRecord(record, ioError)
  \/ \E recordId \in LedgerRecordIds : GetVerificationRecord(recordId)
  \/ \E recordId \in LedgerRecordIds : LedgerVerifyRecord(recordId)
  \/ \E txId \in DOMAIN transactions \cup {"tx_unknown"}, random \in 0..2 :
       GetTransactionStatus(txId, random)
  \/ CreateConfidentialTransaction("rec_a")

SpecLedger == Init /\ [][NextLedger]_vars

\* ------------------------------- BlockchainService, called directly
\* the record as keri.sign and keri.verify serialize it; signatureField is
\* the value of its signature property at that moment
RecordDataWith(recordId, fileId, createdBy, signatureField) ==
  [kind |-> "object", v |-> <<>>,
   fields |-> << <<"recordId", recordId>>, <<"fileId", fileId>>,
                 <<"createdBy", createdBy>>, <<"signature", signatureField>> >>]

\* the record data handed to createVerificationRecord: with or without a
\* createdBy, with or without a signature property of its own
ServiceInputs ==
  { [recordId |-> "rec_a", createdBy |-> id, signed |-> b] :
      id \in DOMAIN identifiers \cup {""}, b \in BOOLEAN }

\* createVerificationRecord is called with record data
StartCreateRecord(input) ==
  /\ Requests < MaxRequests
  /\ Len(verifyCalls) < MaxStores
  /\ verifyCalls' = Append(verifyCalls,
       [NewCall EXCEPT !.pc = "serviceSign", !.fileId = "file_1",
                       !.recordId = input.recordId, !.identifierId = input.createdBy,
                       !.signature = IF input.signed THEN <<ForeignSignature>> ELSE <<>>])
  /\ UNCHANGED <<keyPairs, identifiers, eventLogs, issued, lastOp, calls,
                 files, mappings, dbRecords, records, transactions>>

\* createVerificationRecord lines 75-92: the identifier is created if the
\* data names none, then the record is signed as it stands
ServiceSign(c, ioError) ==
  /\ verifyCalls[c].pc = "serviceSign"
  /\ LET call == verifyCalls[c]
         data == RecordDataWith(call.recordId, call.fileId, call.identifierId,
                                IF call.signature = <<>> THEN Undefined ELSE "sig_x")
     IN IF call.identifierId = ""
        THEN /\ \E metadata \in MetadataValues : CreateIdentifierFresh(metadata)
             /\ verifyCalls' = [verifyCalls EXCEPT
                  ![c].identifierId = IdentifierName[NumIdentifiers + 1]]
        ELSE /\ Sign(call.identifierId, data, ioError)
             /\ verifyCalls' = [verifyCalls EXCEPT ![c] =
                  IF LookupError(call.identifierId) # "ok"
                  THEN [@ EXCEPT !.pc = "failed", !.error = LookupError(call.identifierId),
                                 !.signCalls = @ + 1]
                  ELSE IF ioError
                  THEN [@ EXCEPT !.pc = "failed", !.error = "IOError", !.signCalls = @ + 1]
                  ELSE [@ EXCEPT !.pc = "serviceStore", !.signCalls = @ + 1,
                                 !.signature = <<SignSignature(data,
                                    keyPairs[identifiers[call.identifierId].keyPairId])>>]]
  /\ UNCHANGED <<files, mappings, dbRecords, records, transactions>>

\* createVerificationRecord lines 94-101: the signed record goes to the ledger
ServiceStore(c, ioError) ==
  /\ verifyCalls[c].pc = "serviceStore"
  /\ LET call == verifyCalls[c]
         record == [CompleteRecord(call.recordId, call.signature[1])
                      EXCEPT !.createdBy = call.identifierId]
         txId == TxName[Cardinality(DOMAIN transactions) + 1]
     IN IF ~RecordIsValid(record)
        THEN /\ verifyCalls' = [verifyCalls EXCEPT ![c] =
                  [@ EXCEPT !.pc = "failed", !.error = "InvalidRecord",
                            !.storeCalls = @ + 1]]
             /\ UNCHANGED <<records, transactions>>
        ELSE /\ records' = StoredRecords(records, record)
             /\ transactions' = (txId :> StoreTransaction(txId, call.recordId)) @@ transactions
             /\ verifyCalls' = [verifyCalls EXCEPT ![c] =
                  IF ioError
                  THEN [@ EXCEPT !.pc = "failed", !.error = "IOError", !.storeCalls = @ + 1]
                  ELSE [@ EXCEPT !.pc = "done", !.txId = txId, !.storeCalls = @ + 1]]
  /\ UNCHANGED <<keyPairs, identifiers, eventLogs, issued, lastOp, calls,
                 files, mappings, dbRecords>>

\* verifyRecord of the service, lines 121-137: the ledger's isAuthentic and
\* keri.verify over the stored record with its signature property undefined
ServiceIsValid(record) ==
  /\ IsAuthentic(record)
  /\ KeriVerify(record.createdBy,
                RecordDataWith(record.recordId, record.fileId, record.createdBy, Undefined),
                record.signature)

ServiceVerifyRecord(recordId) ==
  /\ lastOp' = [op |-> "service.verifyRecord", id |-> recordId,
                result |-> IF recordId \notin DOMAIN records THEN "NotFound"
                           ELSE IF LookupError(records[recordId].createdBy) # "ok"
                           THEN LookupError(records[recordId].createdBy)
                           ELSE IF ServiceIsValid(ReadRecord(records, recordId)) THEN "valid"
                           ELSE "invalid"]
  /\ UNCHANGED <<keyPairs, identifiers, eventLogs, issued, calls,
                 files, mappings, dbRecords, records, transactions, verifyCalls>>

\* rotateKeys called for an identifier that exists
RotateCreatorKeys ==
  /\ \E identifierId \in DOMAIN identifiers : RotateKeys(identifierId)
  /\ UNCHANGED <<files, mappings, dbRecords, records, transactions, verifyCalls>>

NextService ==
  \/ RegisterCreator
  \/ RotateCreatorKeys
  \/ \E input \in ServiceInputs : StartCreateRecord(input)
  \/ \E c \in CallSlots, ioError \in BOOLEAN : ServiceSign(c, ioError)
  \/ \E c \in CallSlots, ioError \in BOOLEAN : ServiceStore(c, ioError)
  \/ \E recordId \in LedgerRecordIds : ServiceVerifyRecord(recordId)

SpecService == Init /\ [][NextService]_vars

\* ------------------------------------------------- ValidationService
\* the largest number drawn as a value or as a bound of a range rule
MaxValue == 3

\* JavaScript values by type; a string is its sequence of characters, NaN is
\* a value whose typeof is 'number'
JsStrings == { <<>>, <<" ">>, <<" ", " ">>, <<"x">>, <<" ", "x">>, <<"5">> }

JsValues ==
  { [t |-> "undefined"], [t |-> "null"], [t |-> "NaN"], [t |-> "object"],
    [t |-> "boolean", b |-> TRUE], [t |-> "boolean", b |-> FALSE],
    [t |-> "array", len |-> 0], [t |-> "array", len |-> 1] }
  \cup { [t |-> "string", s |-> str] : str \in JsStrings }
  \cup { [t |-> "number", n |-> n] : n \in -1 .. MaxValue + 1 }

TypeOf(value) ==
  CASE value.t \in {"number", "NaN"} -> "number"
    [] value.t \in {"null", "array", "object"} -> "object"
    [] OTHER -> value.t

\* String.prototype.trim
RECURSIVE TrimStart(_)
TrimStart(str) ==
  IF str # <<>> /\ Head(str) = " " THEN TrimStart(Tail(str)) ELSE str

RECURSIVE TrimEnd(_)
TrimEnd(str) ==
  IF str # <<>> /\ str[Len(str)] = " " THEN TrimEnd(SubSeq(str, 1, Len(str) - 1)) ELSE str

Trim(str) == TrimEnd(TrimStart(str))

\* value < bound and value > bound of JavaScript: false whenever value is NaN
JsLess(value, bound) == value.t = "number" /\ value.n < bound
JsGreater(value, bound) == value.t = "number" /\ value.n > bound

\* _validateRange; parameters.get(k) is undefined when the Map has no key k
ValidateRange(value, parameters) ==
  IF TypeOf(value) # "number" THEN FALSE
  ELSE IF "min" \in DOMAIN parameters /\ JsLess(value, parameters.min) THEN FALSE
  ELSE IF "max" \in DOMAIN parameters /\ JsGreater(value, parameters.max) THEN FALSE
  ELSE TRUE

\* _validateRequired
ValidateRequired(value) ==
  IF value.t \in {"undefined", "null"} THEN FALSE
  ELSE IF value.t = "string" /\ Trim(value.s) = <<>> THEN FALSE
  ELSE IF value.t = "array" /\ value.len = 0 THEN FALSE
  ELSE TRUE

\* the rules handed to validateValue: required rules (with and without a
\* parameters Map), range rules with each bound present or absent, a range
\* rule without a parameters Map, the two rule types that are not
\* implemented for a single value, and a rule type the switch does not know
RangeParameters ==
  { [k \in keys |-> IF k = "min" THEN lo ELSE hi] :
      keys \in SUBSET {"min", "max"}, lo \in 0 .. 1, hi \in 1 .. MaxValue }

RuleInputs ==
  { [ruleType |-> "required", hasParameters |-> b, parameters |-> <<>>] : b \in BOOLEAN }
  \cup { [ruleType |-> "range", hasParameters |-> TRUE, parameters |-> p] :
           p \in RangeParameters }
  \cup { [ruleType |-> ty, hasParameters |-> FALSE, parameters |-> <<>>] :
           ty \in {"range", "uniqueness", "custom", "unknown"} }

\* isValid of validateValue; a throw inside the switch (parameters.get on an
\* undefined Map, an unknown rule type) is caught and gives isValid false
ValidateValue(rule, value) ==
  CASE rule.ruleType = "range" ->
         IF rule.hasParameters THEN ValidateRange(value, rule.parameters) ELSE FALSE
    [] rule.ruleType = "required" -> ValidateRequired(value)
    [] rule.ruleType \in {"uniqueness", "custom"} -> TRUE
    [] OTHER -> FALSE

\* a call of validateValue that was made returns
CallValidateValue ==
  /\ lastOp.op = "call validateValue"
  /\ lastOp' = [op |-> "validateValue", id |-> "", rule |-> lastOp.rule,
                value |-> lastOp.value,
                result |-> ValidateValue(lastOp.rule, lastOp.value)]
  /\ UNCHANGED <<keyPairs, identifiers, eventLogs, issued, calls, files, mappings,
                 dbRecords, records, transactions, verifyCalls>>

\* the most rules the rule collection holds
MaxRules == 2

Severities == {"error", "warning", "info"}

\* the rule collection in insertion order; ValidationRule.js: severity is one
\* of three strings, active a boolean, schemaId one of the schema names
RuleDocuments ==
  [schemaId : {"EmissionData", "ActivityData"}, severity : Severities, active : BOOLEAN]

RuleCollections == UNION { [1 .. n -> RuleDocuments] : n \in 0 .. MaxRules }

\* a string of the severity enum as its characters, and the code of a character
Chars(str) ==
  CASE str = "error" -> <<"e", "r", "r", "o", "r">>
    [] str = "warning" -> <<"w", "a", "r", "n", "i", "n", "g">>
    [] str = "info" -> <<"i", "n", "f", "o">>

Alphabet == <<"a", "b", "c", "d", "e", "f", "g", "h", "i", "j", "k", "l", "m",
              "n", "o", "p", "q", "r", "s", "t", "u", "v", "w", "x", "y", "z">>

CharCode(c) == CHOOSE k \in DOMAIN Alphabet : Alphabet[k] = c

\* the order of an ascending sort on a string field: code unit by code unit
RECURSIVE SeqLess(_, _)
SeqLess(a, b) ==
  IF b = <<>> THEN FALSE
  ELSE IF a = <<>> THEN TRUE
  ELSE IF CharCode(Head(a)) # CharCode(Head(b)) THEN CharCode(Head(a)) < CharCode(Head(b))
  ELSE SeqLess(Tail(a), Tail(b))

\* .sort({ severity: 1 }) compares the stored strings
SeverityLess(a, b) == SeqLess(Chars(a), Chars(b))

\* find({ schemaId, active: true }): the positions of the matching documents
Matching(collection, schemaId) ==
  { k \in DOMAIN collection :
      collection[k].schemaId = schemaId /\ collection[k].active }

\* the orders .sort({ severity: 1 }) may return the matching documents in:
\* ascending by severity, documents of equal severity in any order
SortedBySeverity(collection, found) ==
  { order \in [1 .. Cardinality(found) -> found] :
      /\ \A i, j \in DOMAIN order : i # j => order[i] # order[j]
      /\ \A i, j \in DOMAIN order :
           i < j => ~SeverityLess(collection[order[j]].severity,
                                  collection[order[i]].severity) }

\* a call of loadValidationRules(schemaId) that was made returns
LoadValidationRules ==
  /\ lastOp.op = "call loadValidationRules"
  /\ \E order \in SortedBySeverity(lastOp.collection,
                                   Matching(lastOp.collection, lastOp.id)) :
       lastOp' = [op |-> "loadValidationRules", id |-> lastOp.id,
                  collection |-> lastOp.collection, result |-> order]
  /\ UNCHANGED <<keyPairs, identifiers, eventLogs, issued, calls, files, mappings,
                 dbRecords, records, transactions, verifyCalls>>

\* ------------------------------- ValidationService over a ruleset library
\* what the validationFunction text of a custom rule does when it is compiled
\* and called: there is none, it returns without or with an issue pushed,
\* it throws, it returns a rejected promise, or it does not compile
CustomFunctions == {"absent", "passes", "reports", "throws", "rejects", "invalid"}

\* what a built-in validator does on the data: no issue, an issue, a throw
ValidatorRuns == {"passes", "reports", "throws"}

\* the rules handed to validateData: custom rules, rules of a built-in type,
\* and rules of a type the switch of applyRule does not know
DataRules ==
  { [type |-> "Custom", severity |-> sev, run |-> f] :
      sev \in {"Error", "Warning", "Info"}, f \in CustomFunctions }
  \cup { [type |-> ty, severity |-> sev, run |-> r] :
           ty \in {"Completeness", "Unknown"}, sev \in {"Error", "Warning"},
           r \in ValidatorRuns }

\* mutant of ExecuteCustomValidation: a rule without a function passes
ExecuteCustomValidationLenient(rule) ==
  IF rule.run \in {"throws", "rejects", "invalid"}
  THEN [issues |-> <<"Custom validation error">>, thrown |-> FALSE]
  ELSE IF rule.run = "reports" THEN [issues |-> <<"issue">>, thrown |-> FALSE]
  ELSE [issues |-> <<>>, thrown |-> FALSE]

\* executeCustomValidation: the issues it leaves on the result and whether an
\* exception leaves it
ExecuteCustomValidation(rule) ==
  IF rule.run = "absent"
  THEN [issues |-> <<"Custom validation rule has no validation function">>,
        thrown |-> FALSE]
  ELSE IF rule.run \in {"throws", "rejects", "invalid"}
  THEN [issues |-> <<"Custom validation error">>, thrown |-> FALSE]
  ELSE IF rule.run = "reports" THEN [issues |-> <<"issue">>, thrown |-> FALSE]
  ELSE [issues |-> <<>>, thrown |-> FALSE]

\* applyRule: the switch inside try, and the catch around it
ApplyRule(rule) ==
  LET inner ==
        CASE rule.type = "Custom" -> ExecuteCustomValidation(rule)
          [] rule.type = "Unknown" ->
               [issues |-> <<"Unknown rule type">>, thrown |-> FALSE]
          [] OTHER ->
               [issues |-> IF rule.run = "reports" THEN <<"issue">> ELSE <<>>,
                thrown |-> rule.run = "throws"]
  IN IF inner.thrown
     THEN [issues |-> inner.issues \o <<"Error applying rule">>, thrown |-> FALSE]
     ELSE inner

RECURSIVE ValidateData(_, _)
\* validateData from rule i on; an exception leaving applyRule would end the loop
ValidateData(rules, i) ==
  IF i > Len(rules)
  THEN [isValid |-> TRUE, errors |-> <<>>, warnings |-> <<>>, info |-> <<>>,
        applied |-> <<>>, thrown |-> FALSE]
  ELSE LET rule == rules[i]
           validationResult == ApplyRule(rule)
           rest == ValidateData(rules, i + 1)
           failed == validationResult.issues # <<>>
       IN IF validationResult.thrown
          THEN [isValid |-> TRUE, errors |-> <<>>, warnings |-> <<>>, info |-> <<>>,
                applied |-> <<>>, thrown |-> TRUE]
          ELSE [isValid |-> IF failed /\ rule.severity = "Error" THEN FALSE ELSE rest.isValid,
                errors |-> (IF failed /\ rule.severity = "Error"
                            THEN validationResult.issues ELSE <<>>) \o rest.errors,
                warnings |-> (IF failed /\ rule.severity = "Warning"
                              THEN validationResult.issues ELSE <<>>) \o rest.warnings,
                info |-> (IF failed /\ rule.severity \notin {"Error", "Warning"}
                          THEN validationResult.issues ELSE <<>>) \o rest.info,
                applied |-> <<validationResult>> \o rest.applied,
                thrown |-> rest.thrown]

\* a call of validateData that was made returns
CallValidateData ==
  /\ lastOp.op = "call validateData"
  /\ lastOp' = [op |-> "validateData", id |-> "", rules |-> lastOp.rules,
                result |-> ValidateData(lastOp.rules, 1)]
  /\ UNCHANGED <<keyPairs, identifiers, eventLogs, issued, calls, files, mappings,
                 dbRecords, records, transactions, verifyCalls>>

\* the orders in which ValidationRule.find may hand the active rules of a
\* schema to _validateFile (the query of verifyFile has no sort)
RuleOrders(schemaId) ==
  LET rules == ActiveRules(schemaId)
  IN { [k \in DOMAIN rules |-> rules[order[k]]] :
         order \in { f \in [DOMAIN rules -> DOMAIN rules] :
                       \A i, j \in DOMAIN rules : i # j => f[i] # f[j] } }

\* a call of _validateFile that was made returns; randoms[k] is the outcome
\* of the k-th Math.random() test of the call
CallValidateFile ==
  /\ lastOp.op = "call validateFile"
  /\ lastOp' = [op |-> "validateFile", id |-> lastOp.id, rules |-> lastOp.rules,
                mapping |-> lastOp.mapping, randoms |-> lastOp.randoms,
                result |-> ValidateFile(lastOp.rules, lastOp.mapping, lastOp.randoms)]
  /\ UNCHANGED <<keyPairs, identifiers, eventLogs, issued, calls, files, mappings,
                 dbRecords, records, transactions, verifyCalls>>

\* the calls made on the validation service: a rule and a value, a schema
\* id over a rule collection, or a mapping and its schema's rules in some order
RuleCalls ==
  { [op |-> "call validateValue", id |-> "", rule |-> rule, value |-> value] :
      rule \in RuleInputs, value \in JsValues }
  \cup { [op |-> "call loadValidationRules", id |-> schemaId, collection |-> collection] :
           schemaId \in {"EmissionData", "ActivityData"}, collection \in RuleCollections }
  \cup UNION { { [op |-> "call validateFile", id |-> mapping.schemaId, rules |-> rules,
                  mapping |-> mapping, randoms |-> randoms] :
                   rules \in RuleOrders(mapping.schemaId),
                   randoms \in [1 .. Len(ActiveRules(mapping.schemaId)) -> BOOLEAN] } :
               mapping \in MappingInputs }
  \cup { [op |-> "call validateData", id |-> "", rules |-> rules] :
           rules \in UNION { [1 .. n -> DataRules] : n \in 0 .. MaxRules } }

InitRules ==
  /\ files = [f \in FileIds |-> NewFile]
  /\ mappings = <<>>
  /\ dbRecords = <<>>
  /\ records = <<>>
  /\ transactions = <<>>
  /\ verifyCalls = <<>>
  /\ keyPairs = <<>>
  /\ identifiers = <<>>
  /\ eventLogs = <<>>
  /\ issued = {}
  /\ lastOp \in RuleCalls
  /\ calls = <<>>

NextRules ==
  \/ CallValidateValue
  \/ LoadValidationRules
  \/ CallValidateFile
  \/ CallValidateData

SpecRules == InitRules /\ [][NextRules]_vars

\* =================================================================== claims

\* the calls that have started and neither returned nor thrown
InFlight(c) == verifyCalls[c].pc \notin {"done", "failed"}

\* the calls that arrive in this step
Arriving == DOMAIN verifyCalls' \ DOMAIN verifyCalls

C2_VerifiedOnlyAfterSignAndSubmit ==
  \A f \in DOMAIN files :
    files[f].status = "verified"
      => /\ \E c \in DOMAIN verifyCalls :
              /\ verifyCalls[c].fileId = f
              /\ verifyCalls[c].pc = "done"
              /\ verifyCalls[c].signCalls = 1
              /\ verifyCalls[c].signature # <<>>
              /\ verifyCalls[c].txId \in DOMAIN transactions
              /\ files[f].verificationRecordId = verifyCalls[c].recordId
              /\ files[f].blockchainTxId = verifyCalls[c].txId
         /\ \A c \in DOMAIN verifyCalls :
              (verifyCalls[c].pc = "failed" /\ verifyCalls[c].recordId # "")
                => files[f].verificationRecordId # verifyCalls[c].recordId

\* the file is verified by one call while another call on it threw in
\* signing or in the ledger submission
C2_Witness ==
  \E f \in DOMAIN files, c \in DOMAIN verifyCalls :
    /\ files[f].status = "verified"
    /\ verifyCalls[c].fileId = f
    /\ verifyCalls[c].pc = "failed"
    /\ verifyCalls[c].signCalls = 1

\* C3, as the specification states it: of two verifyFile calls on one file
\* that overlap in time only one passes the 'mapped' check, so no two calls
\* on the same file are under way together.
C3_OneCallPassesMappedCheck ==
  \A c1, c2 \in DOMAIN verifyCalls :
    (c1 # c2 /\ verifyCalls[c1].fileId = verifyCalls[c2].fileId)
      => ~(InFlight(c1) /\ InFlight(c2))

\* C4, as the specification states it: a call whose validation result is
\* valid and that is asked for a ledger record (createBlockchainRecord not
\* false) ends with the store operation invoked once, the database record
\* 'Confirmed' and the call returning with the file marked verified.
C4_ValidFileIsVerified ==
  \A c \in DOMAIN verifyCalls :
    LET call == verifyCalls[c]
    IN (/\ ~InFlight(c)
        /\ call.validation # <<>>
        /\ call.validation[1].isValid
        /\ call.options[1].createBlockchainRecord)
         => /\ call.pc = "done"
            /\ call.storeCalls = 1
            /\ dbRecords[call.recordId].blockchainStatus = "Confirmed"

\* C5: when the validation step yields isValid = false the file's status
\* becomes 'error' and the call returns at once; it creates no verification
\* record, and neither sign nor the ledger's store is invoked.
C5_InvalidFileNotSubmitted ==
  /\ [][\A c \in DOMAIN verifyCalls :
          (/\ verifyCalls[c].pc = "validate"
           /\ verifyCalls'[c].pc # "validate"
           /\ ~verifyCalls'[c].validation[1].isValid)
            => /\ files'[verifyCalls[c].fileId].status = "error"
               /\ verifyCalls'[c].pc = "done"
               /\ dbRecords' = dbRecords
               /\ records' = records
               /\ transactions' = transactions]_vars
  /\ [](\A c \in DOMAIN verifyCalls :
          (verifyCalls[c].validation # <<>> /\ ~verifyCalls[c].validation[1].isValid)
            => /\ verifyCalls[c].pc = "done"
               /\ verifyCalls[c].recordId = ""
               /\ verifyCalls[c].signCalls = 0
               /\ verifyCalls[c].storeCalls = 0)

\* a call has returned from an invalid validation, the file is in 'error'
C5_Witness ==
  \E c \in DOMAIN verifyCalls :
    /\ verifyCalls[c].validation # <<>>
    /\ ~verifyCalls[c].validation[1].isValid
    /\ verifyCalls[c].pc = "done"
    /\ files[verifyCalls[c].fileId].status = "error"

KeyPairOf(identifierId) == keyPairs[identifiers[identifierId].keyPairId]

\* C6 as stated: for every signature s that sign(id, d) returned, verify(id, d', s)
\* is true exactly when d' serializes identically to d -- at any later time.
C6_VerifyMatchesAlways ==
  \A s \in issued, d \in DataValues :
    KeriVerify(s.identifierId, d, s.signature) <=> (Serialize(d) = Serialize(s.data))

\* C6 amended: as long as the key pair set of id has not been rotated since
\* sign(id, d) returned s, verify(id, d', s) is true exactly when d' serializes
\* identically to d.
C6_VerifyMatchesUntilRotation ==
  \A s \in issued, d \in DataValues :
    (KeyPairOf(s.identifierId).generated = s.generation)
      => (KeriVerify(s.identifierId, d, s.signature) <=> (Serialize(d) = Serialize(s.data)))

\* a signature verified against other data of the same serialization (true)
\* and against data of another serialization (false)
C6_Witness ==
  \E s \in issued, d1, d2 \in DataValues :
    /\ KeyPairOf(s.identifierId).generated = s.generation
    /\ d1 # s.data /\ Serialize(d1) = Serialize(s.data)
    /\ KeriVerify(s.identifierId, d1, s.signature)
    /\ Serialize(d2) # Serialize(s.data)
    /\ ~KeriVerify(s.identifierId, d2, s.signature)

C8_AppendOnlyLog ==
  /\ [](\A id \in DOMAIN eventLogs :
          Len(eventLogs[id]) >= 1 /\ eventLogs[id][1].type = "inception")
  /\ [][\A id \in DOMAIN eventLogs :
          id \in DOMAIN eventLogs' /\ IsPrefix(eventLogs[id], eventLogs'[id])]_vars

\* a log that grew by a rotation, a signature and an erasure
C8_Witness ==
  \E id \in DOMAIN eventLogs :
    /\ Len(eventLogs[id]) >= 4
    /\ CountType(eventLogs[id], "rotation") >= 1
    /\ CountType(eventLogs[id], "signature") >= 1
    /\ CountType(eventLogs[id], "erasure") >= 1

\* C9: rotateKeys fails with not-found for an unknown identifier and with
\* invalid-state for an identifier that is not Active; it succeeds only on an
\* Active identifier.
C9_RotateRequiresActive ==
  (lastOp.op = "rotateKeys")
    => IF lastOp.id \notin DOMAIN identifiers
       THEN lastOp.result = "IdentifierNotFound"
       ELSE IF identifiers[lastOp.id].status = "Active"
            THEN lastOp.result = "ok"
            ELSE lastOp.result = "InvalidState"

\* C10: once implementErasure(id) succeeded the identifier is Erased, and no
\* later sign(id, data) succeeds: no 'signature' event follows an 'erasure'
\* event and no sign call on an Erased identifier returns a signature.
C10_NoSignAfterErasure ==
  /\ \A id \in DOMAIN identifiers :
       (CountType(eventLogs[id], "erasure") >= 1) => identifiers[id].status = "Erased"
  /\ \A id \in DOMAIN eventLogs :
       \A i, j \in 1..Len(eventLogs[id]) :
         ~(i < j /\ eventLogs[id][i].type = "erasure" /\ eventLogs[id][j].type = "signature")
  /\ (lastOp.op = "sign" /\ lastOp.id \in DOMAIN identifiers
        /\ identifiers[lastOp.id].status = "Erased")
       => lastOp.result = "ErasedIdentifier"

\* a store call with the record it was given
StoreStep == lastOp'.op = "storeVerificationRecord"

\* C11: the ledger's store operation rejects every record that lacks one of
\* recordId, fileId, timestamp, validationStatus, fileChecksum, createdBy, and
\* the rejected call adds neither a record nor a transaction.
C11_IncompleteRecordRejected ==
  [][(StoreStep /\ \E f \in RequiredFields : lastOp'.arg[f] = "")
       => /\ lastOp'.result = "InvalidRecord"
          /\ records' = records
          /\ transactions' = transactions]_vars

\* a record that lacks only its checksum was rejected by a ledger that
\* already holds a record
C11_Witness ==
  /\ lastOp.op = "storeVerificationRecord"
  /\ lastOp.result = "InvalidRecord"
  /\ lastOp.arg.fileChecksum = ""
  /\ lastOp.arg.recordId \in DOMAIN records
  /\ transactions # <<>>

\* C12, as the specification states it: a store call for a record id that is
\* already on the ledger is rejected; the record stored first stays and no
\* second transaction is created.
C12_DuplicateRejected ==
  [][(StoreStep /\ lastOp'.id \in DOMAIN records)
       => /\ lastOp'.result # "ok"
          /\ records' = records
          /\ transactions' = transactions]_vars

\* C13: the confirmations of a transaction start at 1, never decrease from one
\* step to the next, never exceed 12, and its status stays 'Confirmed'.
C13_ConfirmationsMonotone ==
  /\ [](\A txId \in DOMAIN transactions :
          /\ transactions[txId].confirmations >= 1
          /\ transactions[txId].confirmations <= 12
          /\ transactions[txId].status = "Confirmed")
  /\ [][/\ \A txId \in DOMAIN transactions :
             /\ txId \in DOMAIN transactions'
             /\ transactions'[txId].confirmations >= transactions[txId].confirmations
             /\ transactions'[txId].status = "Confirmed"
        /\ \A txId \in DOMAIN transactions' \ DOMAIN transactions :
             transactions'[txId].confirmations = 1]_vars

\* a transaction polled up to the cap, and polled once more
C13_Witness ==
  /\ lastOp.op = "getTransactionStatus"
  /\ lastOp.result = "ok"
  /\ transactions[lastOp.id].confirmations = 12
  /\ \E txId \in DOMAIN transactions : transactions[txId].confirmations < 12

\* the two read operations of the ledger
ReadStep == lastOp'.op \in {"getVerificationRecord", "verifyRecord"}

\* C14: getVerificationRecord and the ledger's verifyRecord leave the stored
\* records and transactions as they are; getVerificationRecord returns the
\* stored record, so two reads of one id in a row return the same content.
C14_ReadsChangeNothing ==
  [][/\ ReadStep => (records' = records /\ transactions' = transactions)
     /\ (lastOp'.op = "getVerificationRecord" /\ lastOp'.result = "ok")
          => lastOp'.arg = records[lastOp'.id]
     /\ (/\ lastOp.op = "getVerificationRecord"
         /\ lastOp'.op = "getVerificationRecord"
         /\ lastOp'.id = lastOp.id)
          => lastOp'.arg = lastOp.arg]_vars

\* a stored, signed record was read
C14_Witness ==
  /\ lastOp.op = "getVerificationRecord"
  /\ lastOp.result = "ok"
  /\ lastOp.arg.signature = ForeignSignature
  /\ transactions # <<>>

\* C15: every record that createVerificationRecord put on the ledger passes
\* the service's verifyRecord (isAuthentic and keri.verify over the record
\* with its signature excluded), whether its identifier was supplied or
\* created on demand -- read in the claim's favour: as long as the signing
\* identifier still has the key the record was signed with.
C15_CreatedRecordVerifies ==
  \A recordId \in DOMAIN records :
    LET record == records[recordId]
    IN (/\ record.createdBy \in DOMAIN identifiers
        /\ record.signature.key = KeyPairOf(record.createdBy).current)
       => ServiceIsValid(record)

\* C16: validateValue with a 'required' rule is invalid exactly for undefined,
\* null, an empty or whitespace-only string and an empty array; with a
\* 'range' rule that has a parameters Map it is valid exactly when the value
\* is a number with min <= value <= max, each bound applied only when given.
C16_RequiredAndRange ==
  lastOp.op = "validateValue" =>
    LET rule == lastOp.rule
        value == lastOp.value
    IN /\ rule.ruleType = "required" =>
            (lastOp.result <=>
               ~ \/ value.t \in {"undefined", "null"}
                 \/ value.t = "string" /\ \A k \in DOMAIN value.s : value.s[k] = " "
                 \/ value.t = "array" /\ value.len = 0)
       /\ (rule.ruleType = "range" /\ rule.hasParameters) =>
            (lastOp.result <=>
               /\ value.t = "number"
               /\ "min" \in DOMAIN rule.parameters => rule.parameters.min <= value.n
               /\ "max" \in DOMAIN rule.parameters => value.n <= rule.parameters.max)

\* C17: loadValidationRules(schemaId) returns exactly the active rules of the
\* schema, every 'error' rule before every 'warning' rule and every 'warning'
\* rule before every 'info' rule.
C17_ActiveRulesBySeverity ==
  lastOp.op = "loadValidationRules" =>
    LET collection == lastOp.collection
        order == lastOp.result
        rank == [sev \in Severities |->
                   IF sev = "error" THEN 1 ELSE IF sev = "warning" THEN 2 ELSE 3]
    IN /\ { order[k] : k \in DOMAIN order } = Matching(collection, lastOp.id)
       /\ \A i, j \in DOMAIN order :
            i < j => rank[collection[order[i]].severity] <= rank[collection[order[j]].severity]

\* the keys a key pair set holds
HeldKeys(keyPairInfo) ==
  {keyPairInfo.current, keyPairInfo.next}
    \cup { keyPairInfo.previous[k] : k \in DOMAIN keyPairInfo.previous }

\* C18: every key pair set has a current and a next key, created together and
\* distinct, so a next key exists whenever sign uses current; a rotation sets
\* previous to the old current, current to the old next, and next to a newly
\* generated key that the set never held before.
C18_NextBeforeCurrentIsUsed ==
  /\ [](\A keyPairId \in DOMAIN keyPairs :
          LET keyPairInfo == keyPairs[keyPairId]
          IN /\ keyPairInfo.current # keyPairInfo.next
             /\ \A key \in HeldKeys(keyPairInfo) :
                  key.of = keyPairId /\ key.n \in 1 .. keyPairInfo.generated)
  /\ [][\A keyPairId \in DOMAIN keyPairs :
          LET old == keyPairs[keyPairId]
              new == keyPairs'[keyPairId]
          IN (new.current # old.current \/ new.next # old.next)
               => /\ new.previous = <<old.current>>
                  /\ new.current = old.next
                  /\ new.next.n > old.generated
                  /\ new.next \notin HeldKeys(old)]_vars

\* a key pair set that was rotated twice and then used by sign
C18_Witness ==
  /\ lastOp.op = "sign" /\ lastOp.result = "ok"
  /\ KeyPairOf(lastOp.id).generated >= 4
  /\ KeyPairOf(lastOp.id).previous # <<>>

\* C19: every successful identity-manager call that changes key pairs,
\* identifiers or event logs appends exactly one event to an event log; none
\* changes key pairs or identifiers while appending zero events or several.
C19_OneEventPerMutation ==
  [][(/\ lastOp'.result = "ok"
      /\ <<keyPairs, identifiers, eventLogs>>' # <<keyPairs, identifiers, eventLogs>>)
       => \E id \in DOMAIN eventLogs' :
            /\ Len(eventLogs'[id]) = (IF id \in DOMAIN eventLogs THEN Len(eventLogs[id]) ELSE 0) + 1
            /\ \A other \in DOMAIN eventLogs' \ {id} :
                 other \in DOMAIN eventLogs /\ eventLogs'[other] = eventLogs[other]]_vars

\* C20: the validation result of verifyFile has isValid = true exactly when the
\* error list is empty, and the error list holds exactly the failures of the
\* rules of severity 'error': a Fail of a 'warning' or 'info' rule adds no
\* error, and neither does a Pass or NotApplicable outcome.
C20_ErrorsAreErrorRuleFailures ==
  \A c \in DOMAIN verifyCalls :
    verifyCalls[c].validation # <<>> =>
      LET validation == verifyCalls[c].validation[1]
          severity == [k \in DOMAIN ValidationRuleStore |-> ValidationRuleStore[k].severity]
          failedErrorRules ==
            { outcome.ruleId : outcome \in
                { validation.ruleOutcomes[k] : k \in DOMAIN validation.ruleOutcomes } \cap
                { [ruleId |-> ValidationRuleStore[k].ruleId, result |-> "Fail"] :
                    k \in { j \in DOMAIN ValidationRuleStore : severity[j] = "error" } } }
      IN /\ validation.isValid <=> (validation.errors = <<>>)
         /\ { validation.errors[k] : k \in DOMAIN validation.errors } = failedErrorRules
         /\ Len(validation.errors) = Cardinality(failedErrorRules)

\* C21: when applying a rule throws during the validation step the call goes
\* on: a Fail outcome is recorded for that rule, the remaining rules are
\* still evaluated, and the failure enters the error list only if the rule's
\* severity is 'error'.
C21_ThrowingRuleIsAFailOutcome ==
  \A c \in DOMAIN verifyCalls :
    (/\ verifyCalls[c].validation # <<>>
     /\ ~mappings[verifyCalls[c].mappingId].hasColumnMappings) =>
      LET validation == verifyCalls[c].validation[1]
          rules == ActiveRules(mappings[verifyCalls[c].mappingId].schemaId)
      IN /\ Len(validation.ruleOutcomes) = Len(rules)
         /\ \A k \in DOMAIN rules :
              /\ validation.ruleOutcomes[k] = [ruleId |-> rules[k].ruleId, result |-> "Fail"]
              /\ (\E e \in DOMAIN validation.errors : validation.errors[e] = rules[k].ruleId)
                   <=> rules[k].severity = "error"

\* C22: when verifyFile reaches signing for a caller that supplied no createdBy,
\* an identifier was created on demand, the record is signed under that
\* identifier, and the lookup of the identifier in sign does not fail.
C22_IdentifierCreatedOnDemand ==
  \A c \in DOMAIN verifyCalls :
    LET call == verifyCalls[c]
    IN (/\ call.options # <<>>
        /\ call.options[1].createdBy = ""
        /\ call.signCalls >= 1)
         => /\ call.identifierId \in DOMAIN identifiers
            /\ eventLogs[call.identifierId][1].type = "inception"
            /\ call.error \in {"", "IOError"}

\* C23: when signing or the ledger submission fails inside verifyFile, the call
\* fails as a whole, no ledger record or transaction exists for its
\* verification record, and the file is left in status 'error'.
C23_FailureLeavesFileInError ==
  \A c \in DOMAIN verifyCalls :
    LET call == verifyCalls[c]
    IN (call.pc = "failed" /\ call.signCalls + call.storeCalls >= 1)
         => /\ files[call.fileId].status = "error"
            /\ call.recordId \notin DOMAIN records
            /\ \A txId \in DOMAIN transactions : transactions[txId].recordId # call.recordId

\* C24: rule evaluation in verifyFile is deterministic: two calls that validated
\* the same file under identical mappings, and so the same active rules, have
\* the same rule outcomes and the same isValid.
C24_SameInputsSameOutcomes ==
  \A c1, c2 \in DOMAIN verifyCalls :
    (/\ verifyCalls[c1].validation # <<>>
     /\ verifyCalls[c2].validation # <<>>
     /\ verifyCalls[c1].fileId = verifyCalls[c2].fileId
     /\ mappings[verifyCalls[c1].mappingId] = mappings[verifyCalls[c2].mappingId])
      => /\ verifyCalls[c1].validation[1].ruleOutcomes = verifyCalls[c2].validation[1].ruleOutcomes
         /\ verifyCalls[c1].validation[1].isValid = verifyCalls[c2].validation[1].isValid

C26_CustomFailureIsAnIssue ==
  lastOp.op = "validateData" =>
    /\ ~lastOp.result.thrown
    /\ Len(lastOp.result.applied) = Len(lastOp.rules)
    /\ \A k \in DOMAIN lastOp.rules :
         LET rule == lastOp.rules[k]
         IN (rule.type = "Custom" /\ rule.run \in {"absent", "throws", "rejects", "invalid"})
              => /\ ~ApplyRule(rule).thrown
                 /\ lastOp.result.applied[k].issues # <<>>
                 /\ rule.severity = "Error" => ~lastOp.result.isValid

\* a batch whose first rule is a custom rule that throws and whose last rule
\* is a custom rule without a function
C26_Witness ==
  /\ lastOp.op = "validateData"
  /\ Len(lastOp.rules) >= 2
  /\ lastOp.rules[1].type = "Custom" /\ lastOp.rules[1].run = "throws"
  /\ lastOp.rules[Len(lastOp.rules)].type = "Custom"
  /\ lastOp.rules[Len(lastOp.rules)].run = "absent"
  /\ lastOp.rules[Len(lastOp.rules)].severity = "Error"
  /\ lastOp.rules[1].severity = "Warning"
  /\ ~lastOp.result.isValid

\* C27: verify checks against the current key only: once the key pair set of
\* an identifier was rotated, verify is false for every signature that sign
\* returned for it before the rotation, whatever the data, and verifyRecord
\* of the service is not valid for any record carrying such a signature.
C27_OldSignaturesFailAfterRotation ==
  \A s \in issued :
    (KeyPairOf(s.identifierId).generated > s.generation) =>
      /\ \A d \in DataValues \cup {s.data} : ~KeriVerify(s.identifierId, d, s.signature)
      /\ \A recordId \in DOMAIN records :
           (records[recordId].signature = s.signature
              /\ records[recordId].createdBy = s.identifierId)
             => ~ServiceIsValid(records[recordId])

\* verifyRecord answered 'invalid' for a stored record that was signed from
\* data without a signature of its own, before the signer's keys were rotated
C27_Witness ==
  /\ lastOp.op = "service.verifyRecord" /\ lastOp.result = "invalid"
  /\ \E s \in issued :
       /\ records[lastOp.id].signature = s.signature
       /\ records[lastOp.id].createdBy = s.identifierId
       /\ KeyPairOf(s.identifierId).generated > s.generation
       /\ s.data = RecordDataWith(lastOp.id, records[lastOp.id].fileId, s.identifierId, Undefined)

\* C28: 'verified' is a terminal file status: once a file is 'verified' no step
\* changes its status, its verificationRecordId or its blockchainTxId.
C28_VerifiedIsTerminal ==
  [][\A fileId \in DOMAIN files :
       files[fileId].status = "verified"
         => /\ files'[fileId].status = "verified"
            /\ files'[fileId].verificationRecordId = files[fileId].verificationRecordId
            /\ files'[fileId].blockchainTxId = files[fileId].blockchainTxId]_vars

\* C29: in every reachable state a file in status 'verified' carries a
\* verificationRecordId under which the ledger holds a record, so that
\* getVerificationRecord succeeds for it.
C29_VerifiedFileHasLedgerRecord ==
  \A fileId \in DOMAIN files :
    files[fileId].status = "verified"
      => files[fileId].verificationRecordId \in DOMAIN records

\* C30: a successful rotateKeys(id) changes the keys and the event log of id
\* only: every other identifier keeps its current and next key, its event
\* log, and the verify outcome of the signatures it issued earlier.
C30_RotationTouchesOneIdentifier ==
  [][(lastOp'.op = "rotateKeys" /\ lastOp'.result = "ok") =>
       \A other \in DOMAIN identifiers \ {lastOp'.id} :
         /\ keyPairs'[identifiers'[other].keyPairId].current = KeyPairOf(other).current
         /\ keyPairs'[identifiers'[other].keyPairId].next = KeyPairOf(other).next
         /\ eventLogs'[other] = eventLogs[other]
         /\ \A s \in issued :
              s.identifierId = other
                => (KeriVerify(other, s.data, s.signature)
                      <=> (s.signature = ExpectedSignature(s.data,
                             keyPairs'[identifiers'[other].keyPairId])))]_vars

====
